---- MODULE Spec2Model ----
(***************************************************************************)
(* The note router of packages/api/src/router/note.ts over the "user" and   *)
(* "note" tables of packages/db/src/schema.ts.                              *)
(*                                                                         *)
(* State: the two tables, the database clock, the number of ids generated  *)
(* so far, the role each user had when last signing in, and the response   *)
(* of the most recent call.  One action per tRPC                           *)
(* procedure; each procedure's response is computed by an operator over    *)
(* the tables, so that the same operator can be evaluated on two stores.   *)
(*                                                                         *)
(* Strings are modelled by their length (title, content); a note id is a   *)
(* number, 0 standing for a string that is not a well-formed uuid.         *)
(***************************************************************************)
EXTENDS Integers, Sequences, FiniteSets, TLC

VARIABLES user, Note, now, nextId, loginRole, result, pending

vars == <<user, Note, now, nextId, loginRole, result, pending>>

----------------------------------------------------------------------------
(* Bounds of the model *)

MaxNotes == 2        \* ids generated over a run: 1..MaxNotes
MaxTime == 1         \* the clock runs over 0..MaxTime

----------------------------------------------------------------------------
(* Identities, roles, ids *)

UserIds == {"alice", "bob"}

Anon == "anon"       \* a request that carries no session

Actors == UserIds \cup {Anon}

Roles == {"user", "admin", "moderator"}

DefaultRole == "user"

NotUuid == 0

NoteIds == 1..MaxNotes

IdInputs == {NotUuid} \cup NoteIds

IsUuid(s) == s \in Nat /\ s >= 1

MaxTitle == 256

----------------------------------------------------------------------------
(* Responses *)

Resp(code, message, rows) == [code |-> code, message |-> message, rows |-> rows]

Ok(rows) == Resp("OK", "", rows)

Unauthorized == Resp("UNAUTHORIZED", "UNAUTHORIZED", <<>>)

InternalError == Resp("INTERNAL_SERVER_ERROR", "", <<>>)

BadRequest == Resp("BAD_REQUEST", "", <<>>)

protectedProcedure(actor) == actor # Anon

\* requireRole with the role test lost: any user with a row passes.
requireRole_AnyRole(allowedRoles, U, actor) ==
    IF actor \notin DOMAIN U
    THEN Resp("FORBIDDEN", "You do not have permission to perform this action", <<>>)
    ELSE Ok(<<>>)

\* requireRole deciding on the role the caller had when signing in.
requireRole_FromLogin(allowedRoles, U, actor) ==
    IF actor \notin DOMAIN U \/ loginRole[actor] \notin allowedRoles
    THEN Resp("FORBIDDEN", "You do not have permission to perform this action", <<>>)
    ELSE Ok(<<>>)

\* requireRole: the role is read from the user table at the call.
requireRole(allowedRoles, U, actor) ==
    IF actor \notin DOMAIN U \/ U[actor] \notin allowedRoles
    THEN Resp("FORBIDDEN", "You do not have permission to perform this action", <<>>)
    ELSE Ok(<<>>)

----------------------------------------------------------------------------
(* Queries *)

\* with: { user: { columns } }: the owner's row, projected on columns.
WithUser(U, row, columns) ==
    [note |-> row,
     user |-> [columns |-> columns, id |-> row.userId, role |-> U[row.userId]]]

\* The columns of note.all and note.byId with email: true added.
PublicColumns_WithEmail == {"id", "name", "email", "role", "image"}

PublicColumns == {"id", "name", "role", "image"}

AdminColumns == {"id", "name", "email", "role", "image"}

\* The same rows under orderBy: asc(Note.createdAt).
OrderByCreatedAtDesc_Asc(S) ==
    {s \in [1..Cardinality(S) -> S] :
        /\ \A i, j \in 1..Cardinality(S) : i # j => s[i] # s[j]
        /\ \A i, j \in 1..Cardinality(S) : i < j => s[i].createdAt <= s[j].createdAt}

\* orderBy: desc(Note.createdAt): every order of the rows in which createdAt
\* never increases; rows of equal createdAt come in any order.
OrderByCreatedAtDesc(S) ==
    {s \in [1..Cardinality(S) -> S] :
        /\ \A i, j \in 1..Cardinality(S) : i # j => s[i] # s[j]
        /\ \A i, j \in 1..Cardinality(S) : i < j => s[i].createdAt >= s[j].createdAt}

\* findFirst({ where: eq(Note.id, id) }): the rows with that id (at most one).
FindById(N, id) == {n \in N : n.id = id}

\* Visible with the visibility test inverted: eq(Note.isPublic, false).
Visible_OrPrivate(n, actor) == n.userId = actor \/ ~n.isPublic

Visible(n, actor) == n.userId = actor \/ n.isPublic

\* note.all with the filter dropped for admins.
allResponses_AdminSeesAll(N, U, actor) ==
    IF ~protectedProcedure(actor) THEN {Unauthorized}
    ELSE {Ok([i \in DOMAIN s |-> WithUser(U, s[i], PublicColumns)]) :
            s \in OrderByCreatedAtDesc(
                    {n \in N : Visible(n, actor)
                                 \/ (actor \in DOMAIN U /\ U[actor] = "admin")})}

\* The possible responses of note.all.
allResponses(N, U, actor) ==
    IF ~protectedProcedure(actor) THEN {Unauthorized}
    ELSE {Ok([i \in DOMAIN s |-> WithUser(U, s[i], PublicColumns)]) :
            s \in OrderByCreatedAtDesc({n \in N : Visible(n, actor)})}

\* note.myNotes with the where clause of note.all.
myNotesResponses_AsAll(N, U, actor) ==
    IF ~protectedProcedure(actor) THEN {Unauthorized}
    ELSE {Ok([i \in DOMAIN s |-> [note |-> s[i]]]) :
            s \in OrderByCreatedAtDesc({n \in N : Visible(n, actor)})}

myNotesResponses(N, U, actor) ==
    IF ~protectedProcedure(actor) THEN {Unauthorized}
    ELSE {Ok([i \in DOMAIN s |-> [note |-> s[i]]]) :
            s \in OrderByCreatedAtDesc({n \in N : n.userId = actor})}

\* note.byId answering FORBIDDEN for a note that exists and is not visible.
byIdResponse_Forbidden(N, U, actor, id) ==
    IF ~protectedProcedure(actor) THEN Unauthorized
    ELSE IF ~IsUuid(id) THEN InternalError
    ELSE LET found == {n \in FindById(N, id) : Visible(n, actor)}
         IN  IF found = {}
             THEN IF FindById(N, id) # {}
                  THEN Resp("FORBIDDEN", "You don't have access", <<>>)
                  ELSE Resp("NOT_FOUND", "Note not found or you don't have access", <<>>)
             ELSE Ok(<<WithUser(U, CHOOSE n \in found : TRUE, PublicColumns)>>)

byIdResponse(N, U, actor, id) ==
    IF ~protectedProcedure(actor) THEN Unauthorized
    ELSE IF ~IsUuid(id) THEN InternalError
    ELSE LET found == {n \in FindById(N, id) : Visible(n, actor)}
         IN  IF found = {}
             THEN Resp("NOT_FOUND", "Note not found or you don't have access", <<>>)
             ELSE Ok(<<WithUser(U, CHOOSE n \in found : TRUE, PublicColumns)>>)

adminAllResponses(N, U, actor) ==
    IF ~protectedProcedure(actor) THEN {Unauthorized}
    ELSE IF requireRole({"admin"}, U, actor).code # "OK"
         THEN {requireRole({"admin"}, U, actor)}
    ELSE {Ok([i \in DOMAIN s |-> WithUser(U, s[i], AdminColumns)]) :
            s \in OrderByCreatedAtDesc(N)}

----------------------------------------------------------------------------
(* Input schemas.  An input is a function from field names to values; zod's *)
(* z.object drops the keys that are not in the schema's shape.              *)

SchemaKeys == {"title", "content", "isPublic"}

\* The schema letting unknown keys through (passthrough()).
Strip_Passthrough(input) == input

Strip(input) == [k \in DOMAIN input \cap SchemaKeys |-> input[k]]

\* The title limit off by one: max(255).
TitleOk_Short(len) == len >= 1 /\ len < MaxTitle

TitleOk(len) == len >= 1 /\ len <= MaxTitle

ContentOk(len) == len >= 1

\* CreateNoteSchema: title and content required, isPublic optional.
CreateNoteSchema(input) ==
    /\ "title" \in DOMAIN input /\ TitleOk(input["title"])
    /\ "content" \in DOMAIN input /\ ContentOk(input["content"])

\* UpdateNoteSchema with the overrides of title and content left out: any
\* string passes.
UpdateNoteSchema_AnyString(input) == TRUE

\* UpdateNoteSchema: every field optional.
UpdateNoteSchema(input) ==
    /\ "title" \in DOMAIN input => TitleOk(input["title"])
    /\ "content" \in DOMAIN input => ContentOk(input["content"])

----------------------------------------------------------------------------
(* Mutations: the response of a call and the note table it leaves. *)

\* The insert with the column default of isPublic set to true.
InsertRow_PublicByDefault(input, actor, id, t) ==
    [id |-> id,
     title |-> input["title"],
     content |-> input["content"],
     userId |-> actor,
     isPublic |-> IF "isPublic" \in DOMAIN input THEN input["isPublic"] ELSE TRUE,
     createdAt |-> t,
     updatedAt |-> t]

\* insert(Note).values({...input, userId}): id, isPublic, createdAt and
\* updatedAt take their column defaults.
InsertRow(input, actor, id, t) ==
    [id |-> id,
     title |-> input["title"],
     content |-> input["content"],
     userId |-> actor,
     isPublic |-> IF "isPublic" \in DOMAIN input THEN input["isPublic"] ELSE FALSE,
     createdAt |-> t,
     updatedAt |-> t]

\* update(Note).set(data): every column that data names, and updatedAt.
SetRow(n, data, t) ==
    [id |-> IF "id" \in DOMAIN data THEN data["id"] ELSE n.id,
     title |-> IF "title" \in DOMAIN data THEN data["title"] ELSE n.title,
     content |-> IF "content" \in DOMAIN data THEN data["content"] ELSE n.content,
     userId |-> IF "userId" \in DOMAIN data THEN data["userId"] ELSE n.userId,
     isPublic |-> IF "isPublic" \in DOMAIN data THEN data["isPublic"] ELSE n.isPublic,
     createdAt |-> IF "createdAt" \in DOMAIN data THEN data["createdAt"] ELSE n.createdAt,
     updatedAt |-> t]

\* create taking the owner from the input when the client sends one.
createResponse_TrustsInput(U, actor, input, id, t) ==
    IF ~protectedProcedure(actor) THEN Unauthorized
    ELSE IF ~CreateNoteSchema(input) THEN BadRequest
    ELSE LET owner == IF "userId" \in DOMAIN input THEN input["userId"] ELSE actor
         IN  IF owner \notin DOMAIN U THEN InternalError
             ELSE Ok(<<[note |-> InsertRow(Strip(input), owner, id, t)]>>)

createResponse(U, actor, input, id, t) ==
    IF ~protectedProcedure(actor) THEN Unauthorized
    ELSE IF ~CreateNoteSchema(input) THEN BadRequest
    ELSE IF actor \notin DOMAIN U THEN InternalError   \* foreign key on userId
    ELSE Ok(<<[note |-> InsertRow(Strip(input), actor, id, t)]>>)

\* The ownership check with the comparison of userId lost.
OwnerCheck_NoOwner(N, actor, id, message) ==
    IF ~IsUuid(id) THEN InternalError
    ELSE IF FindById(N, id) = {} THEN Resp("NOT_FOUND", "Note not found", <<>>)
    ELSE Ok(<<>>)

\* The ownership check letting anyone write a public note.
OwnerCheck_PublicWritable(N, actor, id, message) ==
    IF ~IsUuid(id) THEN InternalError
    ELSE IF FindById(N, id) = {} THEN Resp("NOT_FOUND", "Note not found", <<>>)
    ELSE IF LET n == CHOOSE n \in FindById(N, id) : TRUE
            IN  n.userId # actor /\ ~n.isPublic
         THEN Resp("FORBIDDEN", message, <<>>)
    ELSE Ok(<<>>)

\* The ownership check of update and delete, after the load by id.
OwnerCheck(N, actor, id, message) ==
    IF ~IsUuid(id) THEN InternalError
    ELSE IF FindById(N, id) = {} THEN Resp("NOT_FOUND", "Note not found", <<>>)
    ELSE IF (CHOOSE n \in FindById(N, id) : TRUE).userId # actor
         THEN Resp("FORBIDDEN", message, <<>>)
    ELSE Ok(<<>>)

updateResponse(N, actor, id, data, t) ==
    IF ~protectedProcedure(actor) THEN Unauthorized
    ELSE IF ~UpdateNoteSchema(data) THEN BadRequest
    ELSE IF OwnerCheck(N, actor, id, "You can only update your own notes").code # "OK"
         THEN OwnerCheck(N, actor, id, "You can only update your own notes")
    ELSE IF DOMAIN Strip(data) = {} THEN InternalError   \* set() of no values
    ELSE Ok(<<[note |-> SetRow(CHOOSE n \in FindById(N, id) : TRUE, Strip(data), t)]>>)

updateStore(N, actor, id, data, t) ==
    IF updateResponse(N, actor, id, data, t).code # "OK" THEN N
    ELSE {IF n.id = id THEN SetRow(n, Strip(data), t) ELSE n : n \in N}

\* note.delete declared without the session check (publicProcedure).
deleteResponse_Public(N, actor, id) ==
    OwnerCheck(N, actor, id, "You can only delete your own notes")

deleteResponse(N, actor, id) ==
    IF ~protectedProcedure(actor) THEN Unauthorized
    ELSE OwnerCheck(N, actor, id, "You can only delete your own notes")

deleteStore(N, actor, id) ==
    IF deleteResponse(N, actor, id).code # "OK" THEN N
    ELSE {n \in N : n.id # id}

\* adminDelete with the role checked in the handler, after the lookup.
adminDeleteResponse_LookupFirst(N, U, actor, id) ==
    IF ~protectedProcedure(actor) THEN Unauthorized
    ELSE IF ~IsUuid(id) THEN InternalError
    ELSE IF FindById(N, id) = {} THEN Resp("NOT_FOUND", "Note not found", <<>>)
    ELSE IF requireRole({"admin"}, U, actor).code # "OK"
         THEN requireRole({"admin"}, U, actor)
    ELSE Ok(<<>>)

adminDeleteResponse(N, U, actor, id) ==
    IF ~protectedProcedure(actor) THEN Unauthorized
    ELSE IF requireRole({"admin"}, U, actor).code # "OK"
         THEN requireRole({"admin"}, U, actor)
    ELSE IF ~IsUuid(id) THEN InternalError
    ELSE IF FindById(N, id) = {} THEN Resp("NOT_FOUND", "Note not found", <<>>)
    ELSE Ok(<<>>)

\* adminDelete marking the call done and leaving the row in the table.
adminDeleteStore_Keeps(N, U, actor, id) == N

adminDeleteStore(N, U, actor, id) ==
    IF adminDeleteResponse(N, U, actor, id).code # "OK" THEN N
    ELSE {n \in N : n.id # id}

----------------------------------------------------------------------------
(* State *)

Call(op, actor, input, r) ==
    [op |-> op, actor |-> actor, input |-> input,
     code |-> r.code, message |-> r.message, rows |-> r.rows]

\* No response at hand: before the first call, and once the tables have been
\* edited outside the router since the last one.
Idle == Call("none", Anon, <<>>, Ok(<<>>))

\* The user has not signed in yet.
NoLogin == "none"

\* The requests that can be in flight at once, and a request slot with no
\* update between its load and its write.
Procs == {1, 2}

NoCall == [op |-> "none"]

Init ==
    /\ user = [u \in {} |-> DefaultRole]
    /\ Note = {}
    /\ now = 0
    /\ nextId = 1
    /\ loginRole = [u \in UserIds |-> NoLogin]
    /\ result = Idle
    /\ pending = [p \in Procs |-> NoCall]

all(actor) ==
    /\ \E r \in allResponses(Note, user, actor) : result' = Call("all", actor, <<>>, r)
    /\ UNCHANGED <<pending, loginRole, user, Note, now, nextId>>

myNotes(actor) ==
    /\ \E r \in myNotesResponses(Note, user, actor) :
          result' = Call("myNotes", actor, <<>>, r)
    /\ UNCHANGED <<pending, loginRole, user, Note, now, nextId>>

byId(actor, id) ==
    /\ result' = Call("byId", actor, <<id>>, byIdResponse(Note, user, actor, id))
    /\ UNCHANGED <<pending, loginRole, user, Note, now, nextId>>

adminAll(actor) ==
    /\ \E r \in adminAllResponses(Note, user, actor) :
          result' = Call("adminAll", actor, <<>>, r)
    /\ UNCHANGED <<pending, loginRole, user, Note, now, nextId>>

\* A successful insert takes the next generated id; ids are never generated twice.
\* create writing a role sent by the client to the caller's user row.
create_AssignsRole(actor, input) ==
    LET r == createResponse(user, actor, input, nextId, now)
    IN  /\ r.code = "OK" => nextId <= MaxNotes
        /\ result' = Call("create", actor, <<input>>, r)
        /\ Note' = IF r.code = "OK" THEN Note \cup {r.rows[1].note} ELSE Note
        /\ nextId' = IF r.code = "OK" THEN nextId + 1 ELSE nextId
        /\ user' = IF r.code = "OK" /\ "role" \in DOMAIN input
                   THEN [user EXCEPT ![actor] = input["role"]] ELSE user
        /\ UNCHANGED <<pending, loginRole, now>>

create(actor, input) ==
    LET r == createResponse(user, actor, input, nextId, now)
    IN  /\ r.code = "OK" => nextId <= MaxNotes
        /\ result' = Call("create", actor, <<input>>, r)
        /\ Note' = IF r.code = "OK" THEN Note \cup {r.rows[1].note} ELSE Note
        /\ nextId' = IF r.code = "OK" THEN nextId + 1 ELSE nextId
        /\ UNCHANGED <<pending, loginRole, user, now>>

update(actor, id, data) ==
    /\ result' = Call("update", actor, <<id, data>>,
                      updateResponse(Note, actor, id, data, now))
    /\ Note' = updateStore(Note, actor, id, data, now)
    /\ UNCHANGED <<pending, loginRole, user, now, nextId>>

delete(actor, id) ==
    /\ result' = Call("delete", actor, <<id>>, deleteResponse(Note, actor, id))
    /\ Note' = deleteStore(Note, actor, id)
    /\ UNCHANGED <<pending, loginRole, user, now, nextId>>

adminDelete(actor, id) ==
    /\ result' = Call("adminDelete", actor, <<id>>,
                      adminDeleteResponse(Note, user, actor, id))
    /\ Note' = adminDeleteStore(Note, user, actor, id)
    /\ UNCHANGED <<pending, loginRole, user, now, nextId>>

(* Steps taken outside the router: sign-up, a role edited in the database,   *)
(* a user row deleted (its notes go with it), the passing of time.  They    *)
(* leave no response at hand.                                               *)

AddUser(u) ==
    /\ u \notin DOMAIN user
    /\ user' = [x \in DOMAIN user \cup {u} |-> IF x = u THEN DefaultRole ELSE user[x]]
    /\ result' = Idle
    /\ UNCHANGED <<pending, loginRole, Note, now, nextId>>

SetRole(u, r) ==
    /\ u \in DOMAIN user
    /\ user[u] # r
    /\ user' = [user EXCEPT ![u] = r]
    /\ result' = Idle
    /\ UNCHANGED <<pending, loginRole, Note, now, nextId>>

\* The user row deleted with the foreign key declared without a cascade and
\* not enforced.
RemoveUser_NoCascade(u) ==
    /\ u \in DOMAIN user
    /\ user' = [x \in DOMAIN user \ {u} |-> user[x]]
    /\ result' = Idle
    /\ UNCHANGED <<pending, loginRole, Note, now, nextId>>

RemoveUser(u) ==
    /\ u \in DOMAIN user
    /\ user' = [x \in DOMAIN user \ {u} |-> user[x]]
    /\ Note' = {n \in Note : n.userId # u}
    /\ result' = Idle
    /\ UNCHANGED <<pending, loginRole, now, nextId>>

\* Sign-in: the session is issued with the user's row as it is now.
SignIn(u) ==
    /\ u \in DOMAIN user
    /\ loginRole' = [loginRole EXCEPT ![u] = user[u]]
    /\ UNCHANGED <<pending, user, Note, now, nextId, result>>

Tick ==
    /\ now < MaxTime
    /\ now' = now + 1
    /\ result' = Idle
    /\ UNCHANGED <<pending, loginRole, user, Note, nextId>>

----------------------------------------------------------------------------
(* Spec: the access rules.  Titles and contents are kept to one valid value *)
(* and the clock stands still.                                             *)

AccessCreateInputs ==
    {[title |-> 1, content |-> 1],
     [title |-> 1, content |-> 1, isPublic |-> TRUE],
     [title |-> 1, content |-> 1, userId |-> "bob", role |-> "admin"],
     [title |-> 1, content |-> 1, isPublic |-> TRUE, userId |-> "alice"],
     [title |-> 0, content |-> 1]}

AccessUpdateInputs ==
    {[isPublic |-> TRUE], [isPublic |-> FALSE], [title |-> 0], <<>>}

Calls(CreateInputs, UpdateInputs) ==
    \/ \E a \in Actors : all(a)
    \/ \E a \in Actors : myNotes(a)
    \/ \E a \in Actors, id \in IdInputs : byId(a, id)
    \/ \E a \in Actors : adminAll(a)
    \/ \E a \in Actors, input \in CreateInputs : create(a, input)
    \/ \E a \in Actors, id \in IdInputs, data \in UpdateInputs : update(a, id, data)
    \/ \E a \in Actors, id \in IdInputs : delete(a, id)
    \/ \E a \in Actors, id \in IdInputs : adminDelete(a, id)

OutOfBand ==
    \/ \E u \in UserIds : AddUser(u)
    \/ \E u \in UserIds, r \in Roles : SetRole(u, r)
    \/ \E u \in UserIds : RemoveUser(u)

Next == Calls(AccessCreateInputs, AccessUpdateInputs) \/ OutOfBand

Spec == Init /\ [][Next]_vars

----------------------------------------------------------------------------
(* SpecRoles: the privileged calls between sign-ins and role edits. *)

RolesCreateInputs == {[title |-> 1, content |-> 1]}

NextRoles ==
    \/ \E a \in Actors : adminAll(a)
    \/ \E a \in Actors, id \in IdInputs : adminDelete(a, id)
    \/ \E a \in Actors, input \in RolesCreateInputs : create(a, input)
    \/ \E u \in UserIds : SignIn(u)
    \/ OutOfBand

SpecRoles == Init /\ [][NextRoles]_vars

----------------------------------------------------------------------------------------------------------------------------------------
(* SpecCreate: create with titles and contents at the limits of the schema, *)
(* by callers of every role.                                               *)

CreateInputs ==
    {[title |-> t, content |-> c] : t \in {0, 1, MaxTitle, MaxTitle + 1}, c \in {0, 1}}
        \cup {[content |-> 1], [title |-> 1]}

NextCreate ==
    \/ \E a \in Actors, input \in CreateInputs : create(a, input)
    \/ OutOfBand

SpecCreate == Init /\ [][NextCreate]_vars

----------------------------------------------------------------------------
(* SpecOrder: one user's notes created and deleted while the clock runs,    *)
(* and the three listings.                                                 *)

DataActors == {"alice"}

OrderCreateInputs == {[title |-> 1, content |-> 1]}

NextOrder ==
    \/ \E a \in DataActors : all(a)
    \/ \E a \in DataActors : myNotes(a)
    \/ \E a \in DataActors : adminAll(a)
    \/ \E a \in DataActors, input \in OrderCreateInputs : create(a, input)
    \/ \E a \in DataActors, id \in NoteIds : delete(a, id)
    \/ \E u \in DataActors : AddUser(u)
    \/ \E u \in DataActors, r \in Roles : SetRole(u, r)
    \/ Tick

SpecOrder == Init /\ [][NextOrder]_vars

----------------------------------------------------------------------------
(* SpecData: one user's notes updated with data of every shape while the    *)
(* clock runs.                                                             *)

DataCreateInputs ==
    {[title |-> 1, content |-> 1],
     [title |-> 0, content |-> 1], [title |-> MaxTitle + 1, content |-> 1],
     [title |-> 1, content |-> 0]}

DataUpdateInputs ==
    {<<>>,
     [title |-> MaxTitle], [content |-> 2],
     [title |-> 0], [title |-> MaxTitle + 1], [content |-> 0],
     [isPublic |-> TRUE, id |-> 2, userId |-> "bob", createdAt |-> 1]}

NextData ==
    \/ \E a \in DataActors, input \in DataCreateInputs : create(a, input)
    \/ \E a \in DataActors, id \in NoteIds, data \in DataUpdateInputs : update(a, id, data)
    \/ \E u \in DataActors : AddUser(u)
    \/ Tick

SpecData == Init /\ [][NextData]_vars

----------------------------------------------------------------------------
(* Vocabulary of the properties *)

ReadOps == {"all", "myNotes", "byId", "adminAll"}

\* The note rows a response carries.
Returned(r) == {r.rows[i].note : i \in DOMAIN r.rows}

IsAdmin(U, a) == a \in DOMAIN U /\ U[a] = "admin"

Authenticated(r) == r.actor # Anon

\* Another user's private note.
ForeignPrivate(n, a) == ~n.isPublic /\ n.userId # a

----------------------------------------------------------------------------
(* C1: in every reachable state and for every actor whose directory role is *)
(* not admin, no read (all, myNotes, byId, adminAll) returns to that actor  *)
(* a private note owned by someone else.                                   *)
C1_PrivateNotesConfidential ==
    (result.op \in ReadOps /\ ~IsAdmin(user, result.actor))
        => \A n \in Returned(result) : ~ForeignPrivate(n, result.actor)

\* A non-admin lists notes, gets some, while another user's private note is stored.
C1_Witness ==
    /\ result.op = "all" /\ result.code = "OK"
    /\ ~IsAdmin(user, result.actor)
    /\ Returned(result) # {}
    /\ \E n \in Note : ForeignPrivate(n, result.actor)

(* C2: note.all by an authenticated actor returns exactly the stored notes  *)
(* that the actor owns or that are public, each once, whatever the actor's  *)
(* role: an admin gets no private note of another user.                     *)
C2_AllReturnsOwnAndPublic ==
    (result.op = "all" /\ Authenticated(result))
        => /\ result.code = "OK"
           /\ Returned(result) =
                {n \in Note : n.userId = result.actor \/ n.isPublic}
           /\ Len(result.rows) = Cardinality(Returned(result))

\* An admin calls all while another user has a private and a public note.
C2_Witness ==
    /\ result.op = "all" /\ result.code = "OK"
    /\ IsAdmin(user, result.actor)
    /\ \E n \in Note : ForeignPrivate(n, result.actor)
    /\ \E n \in Returned(result) : n.userId # result.actor

(* C3: note.myNotes by an authenticated actor returns exactly the stored    *)
(* notes the actor owns, private and public alike, each once, and never a   *)
(* note of another user, public or not.                                    *)
C3_MyNotesReturnsOwn ==
    (result.op = "myNotes" /\ Authenticated(result))
        => /\ result.code = "OK"
           /\ Returned(result) = {n \in Note : n.userId = result.actor}
           /\ Len(result.rows) = Cardinality(Returned(result))

\* myNotes returns the caller's private note while another user's public note is stored.
C3_Witness ==
    /\ result.op = "myNotes" /\ result.code = "OK"
    /\ \E n \in Returned(result) : ~n.isPublic
    /\ \E n \in Note : n.isPublic /\ n.userId # result.actor

(* C4: byId(U, id) returns the note iff a note with that id exists and is   *)
(* owned by U or public; in every other case it fails with NOT_FOUND.       *)
C4_ByIdFoundOrNotFound ==
    (result.op = "byId" /\ Authenticated(result))
        => LET found == {n \in Note : n.id = result.input[1] /\ Visible(n, result.actor)}
           IN  IF found # {}
               THEN result.code = "OK" /\ Returned(result) = found
               ELSE result.code = "NOT_FOUND"

\* The part of C4 that the code keeps: for a well-formed id, byId returns the
\* note iff it exists and is the caller's or public, and fails with NOT_FOUND
\* otherwise, an admin asking for another user's private note included.
C4_ByIdOnUuid ==
    (result.op = "byId" /\ Authenticated(result) /\ IsUuid(result.input[1]))
        => LET found == {n \in Note : n.id = result.input[1] /\ Visible(n, result.actor)}
           IN  IF found # {}
               THEN result.code = "OK" /\ Returned(result) = found
               ELSE result.code = "NOT_FOUND"

\* An admin asks for another user's private note and gets NOT_FOUND.
C4_AdminNotFound ==
    /\ result.op = "byId" /\ result.code = "NOT_FOUND"
    /\ IsAdmin(user, result.actor)
    /\ \E n \in Note : n.id = result.input[1] /\ ForeignPrivate(n, result.actor)

(* C5: byId does not reveal existence: for a private note n of another      *)
(* user, byId(U, n.id) has the same response (error kind and message) on    *)
(* the store and on the store without n.                                   *)
C5_ByIdHidesExistence ==
    \A a \in UserIds : \A n \in Note :
        ForeignPrivate(n, a)
            => byIdResponse(Note, user, a, n.id) = byIdResponse(Note \ {n}, user, a, n.id)

\* A user has asked for another user's stored private note.
C5_Witness ==
    /\ result.op = "byId" /\ result.code # "OK"
    /\ Authenticated(result)
    /\ \E n \in Note : n.id = result.input[1] /\ ForeignPrivate(n, result.actor)

----------------------------------------------------------------------------
(* Steps.  Every call leaves its own name in result.op and every step       *)
(* outside the router leaves "none", so a step that changes the state and   *)
(* ends with result.op = "update" is an update call.                       *)

\* The rows with the id the call names, before the call.
Target == FindById(Note, result'.input[1])

OwnedBy(N, a) == \A n \in N : n.userId = a

(* C6: update(U, id, fields) with valid fields fails with NOT_FOUND if no   *)
(* note has that id and with FORBIDDEN if the note exists and is not U's,   *)
(* for every role of U and whatever the note's visibility; in both cases    *)
(* the note table is unchanged.                                            *)
C6_UpdateRejects ==
    [][(result'.op = "update" /\ Authenticated(result')
            /\ UpdateNoteSchema(result'.input[2]))
        => /\ Target = {} => (result'.code = "NOT_FOUND" /\ Note' = Note)
           /\ (Target # {} /\ ~OwnedBy(Target, result'.actor))
                => (result'.code = "FORBIDDEN" /\ Note' = Note)]_vars

\* The part of C6 that the code keeps: the same, for a well-formed id.
C6_UpdateRejectsOnUuid ==
    [][(result'.op = "update" /\ Authenticated(result')
            /\ UpdateNoteSchema(result'.input[2]) /\ IsUuid(result'.input[1]))
        => /\ Target = {} => (result'.code = "NOT_FOUND" /\ Note' = Note)
           /\ (Target # {} /\ ~OwnedBy(Target, result'.actor))
                => (result'.code = "FORBIDDEN" /\ Note' = Note)]_vars

\* An admin's update of another user's public note has been refused.
C6_AdminForbidden ==
    /\ result.op = "update" /\ result.code = "FORBIDDEN"
    /\ IsAdmin(user, result.actor)
    /\ \E n \in Note : n.id = result.input[1] /\ n.isPublic /\ n.userId # result.actor

(* C7: a note's title, content or isPublic changes only in an update call   *)
(* by the note's owner; a note leaves the table only in a delete call by    *)
(* its owner, in an adminDelete call by an actor whose directory role is    *)
(* admin at that call, or in the step that removes its owner.              *)
C7_OnlyOwnerOrAdminMutates ==
    [][\A n \in Note :
        /\ (\E m \in Note' : m.id = n.id /\ m # n)
            => /\ result'.op = "update" /\ result'.code = "OK"
               /\ result'.actor = n.userId /\ result'.input[1] = n.id
               /\ \A m \in Note' : m.id = n.id =>
                    m.userId = n.userId /\ m.createdAt = n.createdAt
        /\ (\A m \in Note' : m.id # n.id)
            => \/ /\ result'.op = "delete" /\ result'.code = "OK"
                  /\ result'.actor = n.userId /\ result'.input[1] = n.id
               \/ /\ result'.op = "adminDelete" /\ result'.code = "OK"
                  /\ IsAdmin(user, result'.actor) /\ result'.input[1] = n.id
               \/ /\ n.userId \in DOMAIN user /\ n.userId \notin DOMAIN user'
                  /\ result' = Idle]_vars

\* An admin who does not own it has removed a note with adminDelete.
C7_Witness ==
    /\ result.op = "adminDelete" /\ result.code = "OK"
    /\ IsAdmin(user, result.actor)
    /\ nextId > 1
    /\ \A n \in Note : n.id # result.input[1]

\* The store with the visibility of n flipped.
FlipVisibility(N, n) == (N \ {n}) \cup {[n EXCEPT !.isPublic = ~n.isPublic]}

(* C8: visibility never affects write access: for any actor and any two     *)
(* stores that differ only in the isPublic flag of note n, update, delete   *)
(* and adminDelete of n have the same outcome (success, or the same error   *)
(* kind).                                                                  *)
C8_VisibilityNotWriteAccess ==
    \A a \in Actors : \A n \in Note :
        /\ \A data \in AccessUpdateInputs :
              updateResponse(Note, a, n.id, data, now).code
                = updateResponse(FlipVisibility(Note, n), a, n.id, data, now).code
        /\ deleteResponse(Note, a, n.id).code
                = deleteResponse(FlipVisibility(Note, n), a, n.id).code
        /\ adminDeleteResponse(Note, user, a, n.id).code
                = adminDeleteResponse(FlipVisibility(Note, n), user, a, n.id).code

\* A non-owner's delete of a public note has been refused.
C8_Witness ==
    /\ result.op = "delete" /\ result.code = "FORBIDDEN"
    /\ \E n \in Note : n.id = result.input[1] /\ n.isPublic /\ n.userId # result.actor

(* C9: delete(U, id) removes the note iff it exists and is U's; when the    *)
(* note exists and is someone else's it fails with FORBIDDEN for every role *)
(* of U and the note stays; when no note has that id it fails with         *)
(* NOT_FOUND.                                                              *)
C9_DeleteOwnOnly ==
    [][(result'.op = "delete" /\ Authenticated(result'))
        => /\ Target = {} => (result'.code = "NOT_FOUND" /\ Note' = Note)
           /\ (Target # {} /\ OwnedBy(Target, result'.actor))
                => (result'.code = "OK" /\ Note' = Note \ Target)
           /\ (Target # {} /\ ~OwnedBy(Target, result'.actor))
                => (result'.code = "FORBIDDEN" /\ Note' = Note)]_vars

\* The part of C9 that the code keeps: the same, for a well-formed id.
C9_DeleteOwnOnlyOnUuid ==
    [][(result'.op = "delete" /\ Authenticated(result') /\ IsUuid(result'.input[1]))
        => /\ Target = {} => (result'.code = "NOT_FOUND" /\ Note' = Note)
           /\ (Target # {} /\ OwnedBy(Target, result'.actor))
                => (result'.code = "OK" /\ Note' = Note \ Target)
           /\ (Target # {} /\ ~OwnedBy(Target, result'.actor))
                => (result'.code = "FORBIDDEN" /\ Note' = Note)]_vars

\* An admin's delete of another user's note has been refused.
C9_AdminForbidden ==
    /\ result.op = "delete" /\ result.code = "FORBIDDEN"
    /\ IsAdmin(user, result.actor)
    /\ \E n \in Note : n.id = result.input[1]

(* C10: adminAll by an authenticated caller succeeds iff the caller's role  *)
(* in the user table at the call is admin, and then returns every stored    *)
(* note, each once, with its owner attached; for a caller whose role is     *)
(* user or moderator, or who has no user row, it fails with FORBIDDEN and   *)
(* returns nothing.                                                        *)
C10_AdminAllForAdminsOnly ==
    (result.op = "adminAll" /\ Authenticated(result))
        => IF IsAdmin(user, result.actor)
           THEN /\ result.code = "OK"
                /\ Returned(result) = Note
                /\ Len(result.rows) = Cardinality(Note)
                /\ \A i \in DOMAIN result.rows :
                      /\ result.rows[i].user.id = result.rows[i].note.userId
                      /\ result.rows[i].user.role = user[result.rows[i].note.userId]
           ELSE result.code = "FORBIDDEN" /\ result.rows = <<>>

\* An admin's adminAll has returned another user's private note.
C10_Witness ==
    /\ result.op = "adminAll" /\ result.code = "OK"
    /\ \E n \in Returned(result) : ForeignPrivate(n, result.actor)

----------------------------------------------------------------------------
(* C11: adminDelete by an actor whose directory role is admin removes the   *)
(* note with the given id, whatever its owner and visibility, and leaves    *)
(* every other note unchanged; if no note has that id it fails with         *)
(* NOT_FOUND and the table is unchanged.                                   *)
C11_AdminDeleteAny ==
    [][(result'.op = "adminDelete" /\ IsAdmin(user, result'.actor))
        => /\ Target # {} => (result'.code = "OK" /\ Note' = Note \ Target)
           /\ Target = {} => (result'.code = "NOT_FOUND" /\ Note' = Note)]_vars

\* The part of C11 that the code keeps: the same, for a well-formed id.
C11_AdminDeleteAnyOnUuid ==
    [][(result'.op = "adminDelete" /\ IsAdmin(user, result'.actor)
            /\ IsUuid(result'.input[1]))
        => /\ Target # {} => (result'.code = "OK" /\ Note' = Note \ Target)
           /\ Target = {} => (result'.code = "NOT_FOUND" /\ Note' = Note)]_vars

\* An admin has removed another user's private note; another note remains.
C11_AdminRemoved ==
    /\ result.op = "adminDelete" /\ result.code = "OK"
    /\ IsAdmin(user, result.actor)
    /\ Note # {}
    /\ \A n \in Note : n.id # result.input[1]

----------------------------------------------------------------------------
(* C12: the role is read fresh at each call: every adminAll and adminDelete *)
(* call by an authenticated actor is refused with FORBIDDEN exactly when    *)
(* the actor's role in the user table at that call is not admin, whatever   *)
(* role the actor had when signing in or at an earlier call; so a demotion  *)
(* or a promotion decides the very next call.                              *)
C12_RoleReadAtEachCall ==
    [][(result'.op \in {"adminAll", "adminDelete"} /\ Authenticated(result'))
        => (result'.code = "FORBIDDEN" <=> ~IsAdmin(user, result'.actor))]_vars

\* A user who signed in as admin and was demoted since has been refused.
C12_Witness ==
    /\ result.op \in {"adminAll", "adminDelete"} /\ result.code = "FORBIDDEN"
    /\ loginRole[result.actor] = "admin"
    /\ result.actor \in DOMAIN user /\ user[result.actor] = "user"

----------------------------------------------------------------------------
(* C13: every successful create by actor A stores a note whose userId is    *)
(* A, whatever owner value the client put in the input: no input to create  *)
(* produces a note owned by another user.                                  *)
C13_CreateOwnerIsCaller ==
    [][(result'.op = "create" /\ result'.code = "OK")
        => /\ Note' \ Note = Returned(result')
           /\ Cardinality(Note' \ Note) = 1
           /\ \A n \in Note' \ Note : n.userId = result'.actor]_vars

\* A create whose input named another, existing user as owner has succeeded.
C13_Witness ==
    /\ result.op = "create" /\ result.code = "OK"
    /\ "userId" \in DOMAIN result.input[1]
    /\ result.input[1]["userId"] # result.actor
    /\ result.input[1]["userId"] \in DOMAIN user
    /\ Returned(result) \subseteq Note

----------------------------------------------------------------------------
----------------------------------------------------------------------------
(* C15: each of the eight procedures, called without an authenticated       *)
(* actor, fails with UNAUTHORIZED, returns no note data and leaves the      *)
(* note table unchanged.                                                   *)
C15_UnauthenticatedRefused ==
    [][(result'.op # "none" /\ ~Authenticated(result'))
        => /\ result'.code = "UNAUTHORIZED"
           /\ result'.rows = <<>>
           /\ Note' = Note]_vars

\* A delete without a session, naming a stored note, has been refused.
C15_Witness ==
    /\ result.op = "delete" /\ ~Authenticated(result)
    /\ result.code = "UNAUTHORIZED"
    /\ \E n \in Note : n.id = result.input[1]

----------------------------------------------------------------------------
\* The fields of the update schema that the data provides.
Provided(data) == DOMAIN data \cap SchemaKeys

\* The call names a stored note owned by the caller.
OnOwnNote == Target # {} /\ OwnedBy(Target, result'.actor)

(* C16: for every user U of any role and every note N of U, whatever        *)
(* N.isPublic: byId(U, N.id) returns N, update(U, N.id, valid fields)       *)
(* succeeds and stores the provided values, and delete(U, N.id) succeeds    *)
(* and removes N.                                                          *)
C16_OwnerFullAccess ==
    [][/\ (result'.op = "byId" /\ OnOwnNote)
            => (result'.code = "OK" /\ Returned(result') = Target)
       /\ (result'.op = "update" /\ OnOwnNote /\ UpdateNoteSchema(result'.input[2]))
            => /\ result'.code = "OK"
               /\ \E m \in Note' :
                    /\ m.id = result'.input[1]
                    /\ \A k \in Provided(result'.input[2]) : m[k] = result'.input[2][k]
       /\ (result'.op = "delete" /\ OnOwnNote)
            => (result'.code = "OK" /\ Note' = Note \ Target)]_vars

\* The part of C16 that the code keeps: the same, for an update that
\* provides at least one of title, content, isPublic.
C16_OwnerFullAccessNonEmpty ==
    [][/\ (result'.op = "byId" /\ OnOwnNote)
            => (result'.code = "OK" /\ Returned(result') = Target)
       /\ (result'.op = "update" /\ OnOwnNote /\ UpdateNoteSchema(result'.input[2])
                /\ Provided(result'.input[2]) # {})
            => /\ result'.code = "OK"
               /\ \E m \in Note' :
                    /\ m.id = result'.input[1]
                    /\ \A k \in Provided(result'.input[2]) : m[k] = result'.input[2][k]
       /\ (result'.op = "delete" /\ OnOwnNote)
            => (result'.code = "OK" /\ Note' = Note \ Target)]_vars

\* A moderator has made their own public note private.
C16_OwnerUpdated ==
    /\ result.op = "update" /\ result.code = "OK"
    /\ result.actor \in DOMAIN user /\ user[result.actor] = "moderator"
    /\ result.input[2] = [isPublic |-> FALSE]
    /\ \E n \in Note : n.id = result.input[1] /\ n.userId = result.actor /\ ~n.isPublic

----------------------------------------------------------------------------
\* The ids of the notes that were stored once and are stored no more: ids are
\* handed out in order and never twice.
Gone(N, next) == {i \in 1..(next - 1) : FindById(N, i) = {}}

(* C17: after a delete or adminDelete of note N has succeeded, every later  *)
(* byId(N.id) by any actor, the former owner included, fails with           *)
(* NOT_FOUND, and N appears in no later result of all, myNotes or adminAll. *)
C17_DeletedStaysGone ==
    [][/\ (result'.op \in {"delete", "adminDelete"} /\ result'.code = "OK")
            => result'.input[1] \in Gone(Note', nextId')
       /\ Gone(Note, nextId) \subseteq Gone(Note', nextId')
       /\ (result'.op = "byId" /\ Authenticated(result')
                /\ result'.input[1] \in Gone(Note', nextId'))
            => (result'.code = "NOT_FOUND" /\ result'.rows = <<>>)
       /\ (result'.op \in {"all", "myNotes", "adminAll"})
            => \A n \in Returned(result') : n.id \notin Gone(Note', nextId')]_vars

\* The former owner asks for a note of theirs that was deleted, while another
\* note is still stored.
C17_Witness ==
    /\ result.op = "byId" /\ result.code = "NOT_FOUND"
    /\ result.input[1] \in Gone(Note, nextId)
    /\ result.actor \in DOMAIN user
    /\ Note # {}

----------------------------------------------------------------------------
Listings == {"all", "myNotes", "adminAll"}

(* C18: every listing (all, myNotes, adminAll) is ordered newest first: for *)
(* any two notes at positions i < j of a returned list, createdAt of the    *)
(* note at i is greater than or equal to createdAt of the note at j.        *)
C18_NewestFirst ==
    result.op \in Listings
        => \A i, j \in DOMAIN result.rows :
              i < j => result.rows[i].note.createdAt >= result.rows[j].note.createdAt

\* A listing of two notes created at different times.
C18_Witness ==
    /\ result.op \in Listings /\ result.code = "OK"
    /\ Len(result.rows) = 2
    /\ result.rows[1].note.createdAt > result.rows[2].note.createdAt

----------------------------------------------------------------------------
\* The rows of a response that carry owner info.
Annotated(r) == {i \in DOMAIN r.rows : "user" \in DOMAIN r.rows[i]}

C19_AdminSeesEmail ==
    /\ result.op = "adminAll" /\ IsAdmin(user, result.actor)
    /\ \E i \in Annotated(result) :
          /\ "email" \in result.rows[i].user.columns
          /\ result.rows[i].user.id # result.actor

----------------------------------------------------------------------------
(* C20: a successful update changes only the fields among {title, content,  *)
(* isPublic} that the call provided and leaves the omitted ones at their    *)
(* prior value; it never changes the note's id, ownerId or createdAt (a     *)
(* client-supplied id, owner or createdAt inside the update data has no     *)
(* effect), and it changes no other note.                                  *)
C20_UpdateFrame ==
    [][(result'.op = "update" /\ result'.code = "OK")
        => \E n \in Note, m \in Note' :
              /\ n.id = result'.input[1] /\ m.id = n.id
              /\ Note' = (Note \ {n}) \cup {m}
              /\ m.userId = n.userId /\ m.createdAt = n.createdAt
              /\ \A k \in {"title", "content", "isPublic"} :
                    m[k] = IF k \in DOMAIN result'.input[2]
                           THEN result'.input[2][k] ELSE n[k]]_vars

\* An update whose data names another id, owner and createdAt has succeeded
\* while a second note is stored, and the note is still alice's, under its id.
C20_Witness ==
    /\ result.op = "update" /\ result.code = "OK"
    /\ {"id", "userId", "createdAt"} \subseteq DOMAIN result.input[2]
    /\ Cardinality(Note) = 2
    /\ \E n \in Note : /\ n.id = result.input[1] /\ n.id # result.input[2]["id"]
                       /\ n.userId = "alice" /\ n.isPublic

----------------------------------------------------------------------------
(* SpecConc: note.update as the two statements it is, a findFirst and an    *)
(* UPDATE ... WHERE id RETURNING, with other requests running between the    *)
(* two.  delete and adminDelete act at their DELETE statement.              *)

\* update up to the ownership check: the session, the input, the findFirst.
updateLoadResponse(N, actor, id, data) ==
    IF ~protectedProcedure(actor) THEN Unauthorized
    ELSE IF ~UpdateNoteSchema(data) THEN BadRequest
    ELSE OwnerCheck(N, actor, id, "You can only update your own notes")

\* The write as an upsert: the loaded row is put back when the row is gone.
UpdateWhere_Upsert(N, loaded, id, data, t) ==
    {n \in N : n.id # id} \cup
        {SetRow(IF FindById(N, id) = {} THEN loaded
                ELSE CHOOSE n \in FindById(N, id) : TRUE, data, t)}

\* The write as a save of the loaded object: every column of the loaded row
\* is written back with the data over it.
UpdateWhere_FromLoaded(N, loaded, id, data, t) ==
    {IF n.id = id THEN SetRow(loaded, data, t) ELSE n : n \in N}

\* update(Note).set(data).where(eq(Note.id, id)): the rows with that id, as
\* they are stored now; the row loaded before takes no part in the write.
UpdateWhere(N, loaded, id, data, t) ==
    {IF n.id = id THEN SetRow(n, data, t) ELSE n : n \in N}

\* .returning(): the rows the statement has written, none if none matched.
Returning(N, id) ==
    IF FindById(N, id) = {} THEN <<>>
    ELSE <<[note |-> CHOOSE n \in FindById(N, id) : TRUE]>>

updateWriteResponse(N, loaded, id, data, t) ==
    IF DOMAIN Strip(data) = {} THEN InternalError   \* set() of no values
    ELSE Ok(Returning(UpdateWhere(N, loaded, id, Strip(data), t), id))

updateWriteStore(N, loaded, id, data, t) ==
    IF DOMAIN Strip(data) = {} THEN N
    ELSE UpdateWhere(N, loaded, id, Strip(data), t)

\* The first half of note.update: a refused call ends here, the others keep
\* the row they found and go on to the write.
updateLoad(p, actor, id, data) ==
    /\ pending[p] = NoCall
    /\ LET r == updateLoadResponse(Note, actor, id, data)
       IN  IF r.code # "OK"
           THEN /\ result' = Call("update", actor, <<id, data>>, r)
                /\ UNCHANGED pending
           ELSE /\ pending' = [pending EXCEPT ![p] =
                                  [op |-> "update", actor |-> actor, id |-> id,
                                   data |-> data,
                                   note |-> CHOOSE n \in FindById(Note, id) : TRUE]]
                /\ UNCHANGED result
    /\ UNCHANGED <<loginRole, user, Note, now, nextId>>

\* The second half of note.update.
updateWrite(p) ==
    /\ pending[p] # NoCall
    /\ LET c == pending[p]
       IN  /\ result' = Call("update", c.actor, <<c.id, c.data>>,
                             updateWriteResponse(Note, c.note, c.id, c.data, now))
           /\ Note' = updateWriteStore(Note, c.note, c.id, c.data, now)
    /\ pending' = [pending EXCEPT ![p] = NoCall]
    /\ UNCHANGED <<loginRole, user, now, nextId>>

ConcCreateInputs == {[title |-> 1, content |-> 1]}

\* Two updates that write different titles, one of them the content too.
ConcUpdateInputs == {[title |-> 2], [title |-> 1, content |-> 2]}

NextConc ==
    \/ \E a \in DataActors, input \in ConcCreateInputs : create(a, input)
    \/ \E p \in Procs, a \in DataActors, id \in NoteIds, data \in ConcUpdateInputs :
          updateLoad(p, a, id, data)
    \/ \E p \in Procs : updateWrite(p)
    \/ \E a \in DataActors, id \in NoteIds : delete(a, id)
    \/ \E a \in DataActors, id \in NoteIds : adminDelete(a, id)
    \/ \E u \in DataActors : AddUser(u)
    \/ \E u \in DataActors, r \in Roles : SetRole(u, r)

SpecConc == Init /\ [][NextConc]_vars

----------------------------------------------------------------------------
\* The step ends an update call: its response is out and no call has gone
\* from its load to its write.
UpdateEnds ==
    /\ result'.op = "update"
    /\ \A p \in Procs : pending'[p] \in {pending[p], NoCall}

(* C21: update is a load followed by a separate write: for every update     *)
(* call by the owner, under any interleaving with a concurrent delete or    *)
(* adminDelete of the same note, the call either fails with NOT_FOUND or    *)
(* returns the updated record of a note that is in the store (it never      *)
(* reports success with no record).                                        *)
C21_UpdateNotFoundOrRecord ==
    [][UpdateEnds
        => \/ result'.code = "NOT_FOUND"
           \/ /\ result'.code = "OK"
              /\ Len(result'.rows) = 1
              /\ result'.rows[1].note \in Note'
              /\ result'.rows[1].note.id = result'.input[1]]_vars

\* The part of C21 that the code keeps: the call fails with NOT_FOUND, or
\* returns the updated record of a stored note, or, when the note was removed
\* between its load and its write, reports success with no record and leaves
\* the store as it is.
C21_UpdateOrEmptySuccess ==
    [][UpdateEnds
        => \/ result'.code = "NOT_FOUND" /\ Note' = Note
           \/ /\ result'.code = "OK"
              /\ Len(result'.rows) = 1
              /\ result'.rows[1].note \in Note'
              /\ result'.rows[1].note.id = result'.input[1]
           \/ /\ result'.code = "OK"
              /\ result'.rows = <<>>
              /\ \E p \in Procs : pending[p] # NoCall /\ pending[p].id = result'.input[1]
              /\ FindById(Note, result'.input[1]) = {}
              /\ Note' = Note]_vars

\* An update has reported success with no record: its note was removed after
\* the load.
C21_EmptySuccess ==
    /\ result.op = "update" /\ result.code = "OK" /\ result.rows = <<>>
    /\ result.input[1] \in Gone(Note, nextId)

----------------------------------------------------------------------------
\* The step is the write of an update that has found its row.
UpdateWrites == UpdateEnds /\ result'.code = "OK" /\ result'.rows # <<>>

(* C22: concurrent updates by the owner to the same note are                *)
(* last-write-wins per field: after both calls finish, each field holds the *)
(* value written by the last update that provided that field, and an update *)
(* that did not provide a field never overwrites the value a concurrent     *)
(* update wrote to that field.  Step by step: each write leaves in every    *)
(* field it provides its own value, and in every other field the value      *)
(* stored just before the write, whatever the row was when the call loaded  *)
(* it.                                                                     *)
C22_LastWriteWinsPerField ==
    [][UpdateWrites
        => \E n \in Note, m \in Note' :
              /\ n.id = result'.input[1] /\ m.id = n.id
              /\ Note' = (Note \ {n}) \cup {m}
              /\ \A k \in {"title", "content", "isPublic"} :
                    m[k] = IF k \in DOMAIN result'.input[2]
                           THEN result'.input[2][k] ELSE n[k]]_vars

\* An update has written a field of a note while another update of the same
\* note, which does not provide that field, is between its load and its
\* write and holds the value the field had before.
C22_Witness ==
    /\ result.op = "update" /\ result.code = "OK" /\ result.rows # <<>>
    /\ result.rows[1].note \in Note
    /\ \E p \in Procs :
          /\ pending[p] # NoCall
          /\ pending[p].id = result.input[1]
          /\ \E k \in DOMAIN result.input[2] \ DOMAIN pending[p].data :
                pending[p].note[k] # result.rows[1].note[k]

----------------------------------------------------------------------------
(* C23: in every reachable state every note's ownerId refers to a user that *)
(* exists in the User Directory; removing a user removes, in the same step, *)
(* all notes owned by that user and no note owned by anyone else.           *)
C23_OwnerExists ==
    /\ [](\A n \in Note : n.userId \in DOMAIN user)
    /\ [][\A u \in DOMAIN user \ DOMAIN user' :
            Note' = {n \in Note : n.userId # u}]_vars

\* A user has been removed after notes were stored, and another user's note
\* is still stored.
C23_Witness ==
    /\ result = Idle
    /\ DOMAIN user # UserIds
    /\ Gone(Note, nextId) # {}
    /\ Note # {}

----------------------------------------------------------------------------
\* The data provides an empty title, a title over the limit or an empty
\* content.
ProvidesInvalid(data) ==
    \/ "title" \in DOMAIN data /\ (data["title"] < 1 \/ data["title"] > MaxTitle)
    \/ "content" \in DOMAIN data /\ data["content"] < 1

----------------------------------------------------------------------------
\* The procedures of the note router.
NoteOps == {"all", "myNotes", "byId", "create", "update", "delete",
            "adminAll", "adminDelete"}

(* C25: no operation of the note service changes any user's role: after any *)
(* sequence of create, update, delete, all, myNotes, byId, adminAll and     *)
(* adminDelete calls with any inputs, every user's role in the User         *)
(* Directory equals its value before the sequence, so a user can never      *)
(* promote themselves through this API.                                    *)
C25_RolesUntouched ==
    [][result'.op \in NoteOps => user' = user]_vars

\* A user who is not an admin has created a note with an input that asks for
\* the role admin, and is still not an admin.
C25_Witness ==
    /\ result.op = "create" /\ result.code = "OK"
    /\ "role" \in DOMAIN result.input[1]
    /\ result.actor \in DOMAIN user
    /\ user[result.actor] # result.input[1]["role"]
    /\ Returned(result) \subseteq Note

----------------------------------------------------------------------------
\* updatedAt of no stored note goes back.
UpdatedAtMonotone ==
    \A n \in Note, m \in Note' : n.id = m.id => m.updatedAt >= n.updatedAt

C26_SuccessSetsUpdatedAt ==
    [][/\ (result'.op = "update" /\ result'.code = "OK")
            => \E m \in Note' : m.id = result'.input[1] /\ m.updatedAt = now
       /\ UpdatedAtMonotone]_vars

\* A note has been updated after the time of its creation.
C26_Updated ==
    /\ result.op = "update" /\ result.code = "OK"
    /\ \E n \in Note : n.id = result.input[1] /\ n.updatedAt > n.createdAt

----------------------------------------------------------------------------
\* Note a comes before note b in the rows of a response.
Before(r, a, b) ==
    \E i, j \in DOMAIN r.rows :
        i < j /\ r.rows[i].note.id = a /\ r.rows[j].note.id = b

(* C27: when two notes of a listing have equal createdAt, every listing     *)
(* returns them in a stable order given by insertion order: the relative    *)
(* order of the two is the same in every call of all, myNotes and adminAll  *)
(* that returns both.                                                      *)
C27_TiesStable ==
    [][(result.op \in Listings /\ result'.op \in Listings)
        => \A a, b \in NoteIds :
              (Before(result, a, b) /\ Before(result', b, a)) => FALSE]_vars

\* A listing has returned two notes of equal createdAt with the one stored
\* last on top.
C27_TieLastFirst ==
    /\ result.op \in Listings /\ result.code = "OK"
    /\ Len(result.rows) = 2
    /\ result.rows[1].note.createdAt = result.rows[2].note.createdAt
    /\ result.rows[1].note.id > result.rows[2].note.id

\* The same two notes with the one stored first on top.
C27_TieFirstFirst ==
    /\ result.op \in Listings /\ result.code = "OK"
    /\ Len(result.rows) = 2
    /\ result.rows[1].note.createdAt = result.rows[2].note.createdAt
    /\ result.rows[1].note.id < result.rows[2].note.id

----------------------------------------------------------------------------
\* The step makes note m public: m is public after it and was not before.
MadePublic(m) == m.isPublic /\ ~\E n \in Note : n.id = m.id /\ n.isPublic

(* C28: create stores isPublic == false when the input omits isPublic, so a *)
(* note becomes readable by other non-admin users only after its owner has  *)
(* explicitly set isPublic to true in create or update.                     *)
C28_PrivateByDefault ==
    [][/\ (/\ result'.op = "create" /\ result'.code = "OK"
           /\ "isPublic" \notin DOMAIN result'.input[1])
            => \A n \in Note' \ Note : ~n.isPublic
       /\ \A m \in Note' :
            MadePublic(m)
                => /\ result'.op \in {"create", "update"}
                   /\ result'.code = "OK"
                   /\ result'.actor = m.userId
                   /\ "isPublic" \in DOMAIN result'.input[Len(result'.input)]
                   /\ result'.input[Len(result'.input)]["isPublic"] = TRUE
       /\ (result'.op \in ReadOps /\ ~IsAdmin(user', result'.actor))
            => \A n \in Returned(result') :
                  n.userId # result'.actor => n.isPublic]_vars

\* A create whose input says nothing of isPublic has stored a private note
\* while another user, not an admin, is in the directory.
C28_Witness ==
    /\ result.op = "create" /\ result.code = "OK"
    /\ "isPublic" \notin DOMAIN result.input[1]
    /\ \E n \in Returned(result) : n \in Note /\ ~n.isPublic
    /\ \E u \in DOMAIN user : u # result.actor /\ user[u] # "admin"

----------------------------------------------------------------------------
(* C29: a removed note never comes back: once delete or adminDelete has     *)
(* removed note N, no later step puts a note with N's id into the store,    *)
(* including the write step of an update that loaded N before the removal   *)
(* and the creation of new notes.                                          *)
C29_NeverComesBack ==
    [][/\ Gone(Note, nextId) \subseteq Gone(Note', nextId')
       /\ \A m \in Note' :
            FindById(Note, m.id) = {}
                => (result'.op = "create" /\ m.id = nextId /\ m.id \notin Gone(Note, nextId))
       /\ \A p \in Procs :
            (pending[p] # NoCall /\ pending'[p] = NoCall
                /\ pending[p].id \in Gone(Note, nextId))
                => Note' = Note]_vars

\* An update that had loaded a note wrote after the note was removed and after
\* a new note was created: the removed note is not stored, the new one is.
C29_Witness ==
    /\ result.op = "update" /\ result.code = "OK"
    /\ result.input[1] \in Gone(Note, nextId)
    /\ \E n \in Note : n.id > result.input[1]
    /\ \A p \in Procs : pending[p] = NoCall

----------------------------------------------------------------------------
(* C30: in adminDelete the role check precedes the note lookup: a call by   *)
(* an actor whose directory role is not admin fails with FORBIDDEN both     *)
(* when the note exists and when it does not, and leaves the store          *)
(* unchanged, so a non-admin cannot learn through adminDelete whether a     *)
(* note id exists: the response is the same, message included, on the       *)
(* store as it is, on the store without the note and on the empty store.    *)
C30_RoleCheckBeforeLookup ==
    [][(/\ result'.op = "adminDelete" /\ Authenticated(result')
        /\ ~IsAdmin(user, result'.actor))
        => /\ result'.code = "FORBIDDEN"
           /\ result'.rows = <<>>
           /\ Note' = Note
           /\ \A N \in {Note, Note \ Target, {}} :
                 Call("adminDelete", result'.actor, result'.input,
                      adminDeleteResponse(N, user, result'.actor, result'.input[1]))
                    = result']_vars

\* A user who is not an admin has called adminDelete on a stored note of
\* another user and was refused; the note is still stored.
C30_Witness ==
    /\ result.op = "adminDelete" /\ result.code = "FORBIDDEN"
    /\ result.actor \in DOMAIN user /\ user[result.actor] # "admin"
    /\ \E n \in Note : n.id = result.input[1] /\ n.userId # result.actor

\* The same caller, refused on an id that no note has.
C30_RefusedOnAbsent ==
    /\ result.op = "adminDelete" /\ result.code = "FORBIDDEN"
    /\ result.actor \in DOMAIN user /\ user[result.actor] # "admin"
    /\ IsUuid(result.input[1]) /\ FindById(Note, result.input[1]) = {}

====
